---------------------------- MODULE Spec2Model ----------------------------
(***************************************************************************)
(* A model of dejavu's two SQLAlchemy storage backends:                    *)
(*   SQLADatabase  (dejavu/database_sqla.py,  ORM sessions)    "sqla"      *)
(*   SQLACDatabase (dejavu/database_sqlac.py, Core connections) "sqlac"    *)
(*                                                                         *)
(* Strings are sequences of character codes (ASCII), raw binary values are *)
(* sequences of byte values 0..255, so that hex encoding, hex decoding and *)
(* upper-casing are computed and not assumed.                              *)
(*                                                                         *)
(* The relational store is modelled as a transactional store that enforces *)
(* the constraints the two schemas declare (primary key, unique, NOT NULL, *)
(* foreign key with ON DELETE CASCADE).                                    *)
(***************************************************************************)
EXTENDS Integers, Sequences, FiniteSets, Bags, TLC

VARIABLES
    backend,        \* which Database subclass is in use: "sqla" or "sqlac"
    created,        \* TRUE when the songs and fingerprints tables exist
    songs,          \* committed rows of the songs table
    fingerprints,   \* committed rows of the fingerprints table
    nextId,         \* next autoincrement value of songs.song_id
    pc,             \* per caller: position inside insert_song
    arg,            \* per caller: the locals of the insert_song in flight
    last,           \* the most recently completed call and its outcome
    query,          \* return_matches: the hashes argument
    out,            \* return_matches: the bag of yielded (sid, difference)
    lookups,        \* return_matches: number of SELECTs executed
    mpc,            \* return_matches: "idle", "ready", "done" or "raised";
                    \* _grouper: "grouping" or "grouped"
    gkeys,          \* _grouper: the iterable argument, distinct keys
    gsize,          \* _grouper: the argument n
    groups          \* _grouper: the chunks the returned generator gives

vars == <<backend, created, songs, fingerprints, nextId, pc, arg, last,
          query, out, lookups, mpc, gkeys, gsize, groups>>

dbvars == <<backend, created, songs, fingerprints, nextId, pc, arg, last>>

matchvars == <<query, out, lookups, mpc, gkeys, gsize, groups>>

----------------------------------------------------------------------------
(* Bounds of the model.                                                    *)

MaxId == 2          \* autoincrement values handed out before inserts stop
MaxBatch == 2       \* pairs in one insert_hashes call
MaxQuery == 2       \* pairs in an exhaustively enumerated query
MaxStored == 2      \* stored rows in the matching spec
MaxPermKeys == 3    \* key lists up to this length are tried in every order

----------------------------------------------------------------------------
(* Strings and binary values.                                              *)

Range(s) == {s[i] : i \in DOMAIN s}

\* One character of str.upper().
UpperChar(c) == IF c >= 97 /\ c <= 122 THEN c - 32 ELSE c

\* str.upper()
StrUpper(s) == [i \in 1..Len(s) |-> UpperChar(s[i])]

\* The value of one hexadecimal digit, "0".."9", "A".."F" or "a".."f".
Nibble(c) == IF c <= 57 THEN c - 48 ELSE IF c <= 70 THEN c - 55 ELSE c - 87

\* The lower-case hexadecimal digit of a value 0..15.
HexDigit(d) == IF d < 10 THEN 48 + d ELSE 87 + d

\* str.decode("hex"): two hexadecimal digits, of either case, per byte.
HexDecode(s) ==
    [i \in 1..(Len(s) \div 2) |-> 16 * Nibble(s[2 * i - 1]) + Nibble(s[2 * i])]

\* str.encode("hex"): two lower-case hexadecimal digits per byte.
HexEncode(b) ==
    [i \in 1..(2 * Len(b)) |->
        IF i % 2 = 1 THEN HexDigit(b[(i + 1) \div 2] \div 16)
                     ELSE HexDigit(b[i \div 2] % 16)]

\* Mutant of hextobin: the bound value is sent as the hex text given.
hextobinNone(val) == val

\* HexedBinary.bind_processor
hextobin(val) == HexDecode(val)

\* HexedBinary.result_processor
bintohex(val) == StrUpper(HexEncode(val))

----------------------------------------------------------------------------
(* _grouper: izip_longest over n references to one iterator, then          *)
(* filter(None, values) on every tuple.                                    *)

\* Python's None as a fill value: no string and no binary value equals it.
NoneVal == <<-1>>

\* Truth value of a key: None and the empty string are false.
Truthy(x) == x # NoneVal /\ x # <<>>

\* Mutant of IzipLongest: one tuple more than Len(iterable) \div n, also
\* when the iterable is empty or divides evenly.
IzipLongestExtra(iterable, n, fillvalue) ==
    [t \in 1..((Len(iterable) \div n) + 1) |->
        [j \in 1..n |->
            IF (t - 1) * n + j <= Len(iterable)
                THEN iterable[(t - 1) * n + j] ELSE fillvalue]]

\* izip_longest(fillvalue=fillvalue, *[iter(iterable)] * n)
IzipLongest(iterable, n, fillvalue) ==
    [t \in 1..((Len(iterable) + n - 1) \div n) |->
        [j \in 1..n |->
            IF (t - 1) * n + j <= Len(iterable)
                THEN iterable[(t - 1) * n + j] ELSE fillvalue]]

\* Mutant of grouper: izip in place of izip_longest, which ends at the
\* first incomplete tuple.
grouperIzip(iterable, n, fillvalue) ==
    [t \in 1..(Len(iterable) \div n) |->
        [j \in 1..n |-> iterable[(t - 1) * n + j]]]

grouper(iterable, n, fillvalue) ==
    LET tuples == IzipLongest(iterable, n, fillvalue)
    IN  [t \in 1..Len(tuples) |-> SelectSeq(tuples[t], Truthy)]

\* The chunk size both return_matches pass to _grouper.
ChunkSize == 999


----------------------------------------------------------------------------
(* return_matches.                                                         *)

\* Mutant of MapperKey: SQLACDatabase files the hash as given.
MapperKeyAsGiven(b, hash) == IF b = "sqla" THEN HexDecode(hash) ELSE hash

\* The key under which a query hash is filed in mapper:
\* hash.decode("hex") in SQLADatabase, hash.upper() in SQLACDatabase.
MapperKey(b, hash) == IF b = "sqla" THEN HexDecode(hash) ELSE StrUpper(hash)

\* mapper after "for hash, offset in hashes: mapper[key] = offset" over
\* hashes[lo..hi]. The loop is folded by halves; the later half overrides
\* the earlier one, as a later assignment overwrites an earlier one.
RECURSIVE MapperOf(_, _, _, _)
MapperOf(b, hashes, lo, hi) ==
    IF lo > hi THEN <<>>
    ELSE IF lo = hi THEN MapperKey(b, hashes[lo][1]) :> hashes[lo][2]
    ELSE LET mid == (lo + hi) \div 2
         IN  MapperOf(b, hashes, mid + 1, hi) @@ MapperOf(b, hashes, lo, mid)

\* Mutant of Mapper: the first offset given for a key is kept.
RECURSIVE MapperFirstOf(_, _, _, _)
MapperFirstOf(b, hashes, lo, hi) ==
    IF lo > hi THEN <<>>
    ELSE IF lo = hi THEN MapperKey(b, hashes[lo][1]) :> hashes[lo][2]
    ELSE LET mid == (lo + hi) \div 2
         IN  MapperFirstOf(b, hashes, lo, mid)
                @@ MapperFirstOf(b, hashes, mid + 1, hi)

MapperFirstWins(b, hashes) == MapperFirstOf(b, hashes, 1, Len(hashes))

Mapper(b, hashes) == MapperOf(b, hashes, 1, Len(hashes))

\* The distinct keys of mapper, listed in the order of their first insertion.
RECURSIVE KeysOf(_, _, _, _)
KeysOf(b, hashes, lo, hi) ==
    IF lo > hi THEN <<>>
    ELSE IF lo = hi THEN <<MapperKey(b, hashes[lo][1])>>
    ELSE LET mid == (lo + hi) \div 2
             left == KeysOf(b, hashes, lo, mid)
             seen == Range(left)
             Fresh(k) == k \notin seen
         IN  left \o SelectSeq(KeysOf(b, hashes, mid + 1, hi), Fresh)

\* mapper.keys() lists the keys in an order of the dictionary's choosing:
\* short lists are tried in every order, long ones in insertion order.
KeyOrders(n) ==
    IF n <= MaxPermKeys THEN Permutations(1..n) ELSE {[i \in 1..n |-> i]}

\* The binary value a key of a chunk is compared with inside IN (...): the
\* key itself in SQLADatabase, the bind processor's result in SQLACDatabase.
BoundKey(b, k) == IF b = "sqla" THEN k ELSE hextobin(k)

\* The rows whose hash is one of the bound values.
RowsIn(rows, bound) == {f \in rows : f.hash \in bound}

\* One SELECT of the fingerprints whose hash is IN (split).
SelectIn(b, rows, split) ==
    RowsIn(rows, {BoundKey(b, k) : k \in Range(split)})

\* The key a fetched row is looked up with in mapper:
\* f._hash in SQLADatabase, f[2].upper() (f[2] from the result processor)
\* in SQLACDatabase.
RowKey(b, f) == IF b = "sqla" THEN f.hash ELSE StrUpper(bintohex(f.hash))

\* Mutant of Yield: the difference taken the other way round.
YieldReversed(b, m, f) == <<f.song_id, m[RowKey(b, f)] - f.song_offset>>

\* The tuple yielded for a fetched row.
Yield(b, m, f) == <<f.song_id, f.song_offset - m[RowKey(b, f)]>>

\* The bag of tuples yielded for the rows of one SELECT.
YieldBag(b, m, rs) ==
    [p \in {Yield(b, m, f) : f \in rs} |->
        Cardinality({f \in rs : Yield(b, m, f) = p})]

\* The rows of chunks[t..] whose key is missing from mapper (a KeyError).
Missed(b, m, rows, chunks) ==
    {f \in rows : /\ \E t \in 1..Len(chunks) : f \in SelectIn(b, rows, chunks[t])
                  /\ RowKey(b, f) \notin DOMAIN m}

\* All tuples yielded over chunks[t..], one SELECT per chunk.
RECURSIVE Yielded(_, _, _, _, _)
Yielded(b, m, rows, chunks, t) ==
    IF t > Len(chunks) THEN EmptyBag
    ELSE YieldBag(b, m, {f \in SelectIn(b, rows, chunks[t]) :
                            RowKey(b, f) \in DOMAIN m})
         (+) Yielded(b, m, rows, chunks, t + 1)

\* mapper.keys() in the order perm.
Keys(base, perm) == [i \in 1..Len(base) |-> base[perm[i]]]

\* What iterating return_matches to exhaustion does, given mapper and the
\* chunks: one SELECT per chunk, one tuple per fetched row. A KeyError ends
\* the iteration; out then holds at most the tuples of the rows found.
Matches(b, m, rows, chunks) ==
    [lookups |-> Len(chunks),
     out     |-> Yielded(b, m, rows, chunks, 1),
     raised  |-> Missed(b, m, rows, chunks) # {}]

\* return_matches(hashes) with mapper.keys() listed in the order perm.
return_matches(b, hashes, rows, perm) ==
    Matches(b, Mapper(b, hashes), rows,
            grouper(Keys(KeysOf(b, hashes, 1, Len(hashes)), perm),
                    ChunkSize, NoneVal))

\* The iteration's outcome r as the caller observes it.
Observe(r) ==
    /\ lookups' = r.lookups
    /\ out' = r.out
    /\ mpc' = IF r.raised THEN "raised" ELSE "done"

ReturnMatches ==
    /\ mpc = "ready"
    /\ \E perm \in KeyOrders(Cardinality({MapperKey(backend, query[i][1]) :
                                            i \in DOMAIN query})) :
         Observe(return_matches(backend, query, fingerprints, perm))
    /\ UNCHANGED <<query, gkeys, gsize, groups>>
    /\ UNCHANGED dbvars

----------------------------------------------------------------------------
(* The inputs of the matching specification.                               *)

Backends == {"sqla", "sqlac"}

\* "a1", "A1", "b2"
SmallHashes == {<<97, 49>>, <<65, 49>>, <<98, 50>>}

QueryOffsets == {0, 40}

SeqsUpTo(S, n) == UNION {[1..k -> S] : k \in 0..n}

SubsetsUpTo(S, n) == {T \in SUBSET S : Cardinality(T) <= n}

\* Stored rows of the hashes a1 and b2: offsets 100 and 60 in song 1,
\* offset 100 in song 2.
SmallRows ==
    {[hash |-> HexDecode(h), song_id |-> so[1], song_offset |-> so[2]] :
        h \in {<<97, 49>>, <<98, 50>>},
        so \in {<<1, 100>>, <<1, 60>>, <<2, 100>>}}

\* Query sizes around one and two chunks.
LargeSizes == {ChunkSize, ChunkSize + 1, 2 * ChunkSize, 2 * ChunkSize + 1}

\* The i-th hash of a large query: four hexadecimal digits, lower-case for
\* odd i and upper-case for even i.
LargeHash(i) ==
    LET lower == <<HexDigit(i \div 4096), HexDigit((i \div 256) % 16),
                   HexDigit((i \div 16) % 16), HexDigit(i % 16)>>
    IN  IF i % 2 = 1 THEN lower ELSE StrUpper(lower)

LargeQuery(n) == [i \in 1..n |-> <<LargeHash(i), i % 3>>]

LargeRows(n) ==
    {[hash |-> HexDecode(LargeHash(i)), song_id |-> 1, song_offset |-> 100] :
        i \in {1, ChunkSize + 1, n + 1}}

\* The songs rows the stored fingerprints refer to.
SongsFor(rows) ==
    {[id |-> i, name |-> "a", sha |-> <<i>>, fingerprinted |-> TRUE] :
        i \in {f.song_id : f \in rows}}

NoCall ==
    [op |-> "none", name |-> "", sid |-> 0, ret |-> 0, err |-> "",
     leak |-> FALSE]

NoArg == [name |-> "", sha |-> <<>>]

InitMatch ==
    /\ backend \in Backends
    /\ \/ /\ query \in SeqsUpTo(SmallHashes \X QueryOffsets, MaxQuery)
          /\ fingerprints \in SubsetsUpTo(SmallRows, MaxStored)
       \/ \E n \in LargeSizes :
            /\ query = LargeQuery(n)
            /\ fingerprints \in SubsetsUpTo(LargeRows(n), MaxStored)
    /\ songs = SongsFor(fingerprints)
    /\ created = TRUE
    /\ nextId = 3
    /\ pc = [p \in {1, 2} |-> "idle"]
    /\ arg = [p \in {1, 2} |-> NoArg]
    /\ last = NoCall
    /\ out = EmptyBag
    /\ lookups = 0
    /\ mpc = "ready"
    /\ gkeys = <<>>
    /\ gsize = ChunkSize
    /\ groups = <<>>

NextMatch == ReturnMatches

SpecMatch == InitMatch /\ [][NextMatch]_vars

----------------------------------------------------------------------------
(* The chunker on its own: _grouper(iterable, n) applied to the keys of a  *)
(* dictionary.                                                             *)

\* Keys a mapper can hold: the empty string, "A1", "B2", "C3".
SmallKeys == {<<>>, <<65, 49>>, <<66, 50>>, <<67, 51>>}

\* The sequences of distinct elements of S.
DistinctSeqs(S) ==
    {q \in SeqsUpTo(S, Cardinality(S)) :
        \A i \in DOMAIN q : \A j \in DOMAIN q : i # j => q[i] # q[j]}

\* Chunk sizes small enough for the small key lists to fill several chunks.
SmallSizes == {1, 2, 3}

\* ChunkSize + 1 distinct keys, the p-th of them the empty string; no empty
\* string among them for p = 0.
LargeKeys(p) ==
    [i \in 1..(ChunkSize + 1) |-> IF i = p THEN <<>> ELSE LargeHash(i)]

InitGrouper ==
    /\ backend \in Backends
    /\ \/ /\ gkeys \in DistinctSeqs(SmallKeys)
          /\ gsize \in SmallSizes \cup {ChunkSize}
       \/ /\ gkeys \in {LargeKeys(p) : p \in {0, 1, ChunkSize + 1}}
          /\ gsize = ChunkSize
    /\ groups = <<>>
    /\ mpc = "grouping"
    /\ created = FALSE
    /\ songs = {}
    /\ fingerprints = {}
    /\ nextId = 1
    /\ pc = [p \in {1, 2} |-> "idle"]
    /\ arg = [p \in {1, 2} |-> NoArg]
    /\ last = NoCall
    /\ query = <<>>
    /\ out = EmptyBag
    /\ lookups = 0

\* The caller runs the generator _grouper(gkeys, gsize) to its end.
Grouper ==
    /\ mpc = "grouping"
    /\ groups' = grouper(gkeys, gsize, NoneVal)
    /\ mpc' = "grouped"
    /\ UNCHANGED <<query, out, lookups, gkeys, gsize>>
    /\ UNCHANGED dbvars

NextGrouper == Grouper

SpecGrouper == InitGrouper /\ [][NextGrouper]_vars

----------------------------------------------------------------------------
(* The store: the two tables and the constraints their schemas declare.    *)

Procs == {1, 2}

Names == {"a", "b"}

\* Content hashes as callers give them: "0a", "0A", "1b".
Shas == {<<48, 97>>, <<48, 65>>, <<49, 98>>}

\* Fingerprint hashes as callers give them: "a1", "A1", "b2".
FpHashes == {<<97, 49>>, <<65, 49>>, <<98, 50>>}

FpOffsets == {0}

\* Python's None given as a song identifier.
NoneSid == 0

\* Song identifiers callers pass: None, and every value the counter can take.
Sids == {NoneSid} \cup (1..MaxId)

\* The batches of (hash, offset) pairs callers pass to insert_hashes,
\* built of ("A1", 0) and ("b2", 0).
Batches == SeqsUpTo({<<65, 49>>, <<98, 50>>} \X FpOffsets, MaxBatch)

SongIds(ss) == {s.id : s \in ss}

\* Song: UniqueConstraint(name, _file_sha1); the songs table of
\* SQLACDatabase declares uniqueness of song_id only.
SongUnique(b, ss, name, sha) ==
    b = "sqla" => \A s \in ss : ~(s.name = name /\ s.sha = sha)

\* fingerprints.song_id: ForeignKey(songs.song_id), and not NULL (part of
\* the primary key in Fingerprint, nullable=False in SQLACDatabase).
ForeignKeyHolds(ss, sid) == sid # NoneSid /\ sid \in SongIds(ss)

\* Mutant of FingerprintUnique: the store accepts a row it already holds.
FingerprintAnyRow(fs, row) == TRUE

\* fingerprints: primary key / unique constraint on (hash, song_id, offset).
FingerprintUnique(fs, row) == row \notin fs

\* Mutant of Cascade: deleting songs leaves their fingerprints in place.
CascadeNone(fs, gone) == fs

\* ondelete="CASCADE": the fingerprints left when the songs gone are deleted.
Cascade(fs, gone) == {f \in fs : f.song_id \notin SongIds(gone)}

\* The row an INSERT of (hash, sid, offset) writes: the hash as raw bytes.
FingerprintRow(hash, sid, offset) ==
    [hash |-> HexDecode(hash), song_id |-> sid, song_offset |-> offset]

\* Mutant of Unfingerprinted: the DELETE has no WHERE clause.
AllSongs(ss) == ss

\* The rows a DELETE ... WHERE fingerprinted = False removes.
Unfingerprinted(ss) == {s \in ss : s.fingerprinted = FALSE}

----------------------------------------------------------------------------
(* The outcome of a call: what it returned or raised, and whether it left  *)
(* the session or connection it opened unclosed.                           *)

Outcome(op, name, sid, ret, err, leak) ==
    [op |-> op, name |-> name, sid |-> sid, ret |-> ret, err |-> err,
     leak |-> leak]

\* A call that raises err and changes nothing in the store.
Raises(op, name, sid, err, leak) ==
    /\ last' = Outcome(op, name, sid, 0, err, leak)
    /\ UNCHANGED <<created, songs, fingerprints, nextId>>

\* A call that returns ret and changes nothing in the store.
Returns(op, name, sid, ret, leak) ==
    /\ last' = Outcome(op, name, sid, ret, "", leak)
    /\ UNCHANGED <<created, songs, fingerprints, nextId>>

\* An operation on tables that do not exist raises. SQLADatabase then never
\* reaches session.close(); SQLACDatabase leaves its "with" block.
NoTables(op, name, sid) ==
    Raises(op, name, sid, "OperationalError", backend = "sqla")

----------------------------------------------------------------------------
(* The operations.                                                         *)

\* Mutant of SongsAfterPurge: the DELETE is committed in both backends.
SongsPurged(b, ss) == ss \ Unfingerprinted(ss)

\* The songs table after delete_unfingerprinted_songs. In SQLADatabase the
\* DELETE runs inside the session's transaction, no commit follows, and
\* session.close() rolls it back: nothing changes. In SQLACDatabase the
\* connection autocommits the DELETE.
SongsAfterPurge(b, ss) ==
    IF b = "sqla" THEN ss ELSE ss \ Unfingerprinted(ss)

\* The fingerprints table after delete_unfingerprinted_songs.
FingerprintsAfterPurge(b, ss, fs) ==
    IF b = "sqla" THEN fs ELSE Cascade(fs, Unfingerprinted(ss))

\* delete_unfingerprinted_songs
DeleteUnfingerprintedSongs ==
    /\ IF ~created
          THEN NoTables("delete_unfingerprinted_songs", "", NoneSid)
          ELSE /\ songs' = SongsAfterPurge(backend, songs)
               /\ fingerprints' =
                    FingerprintsAfterPurge(backend, songs, fingerprints)
               /\ last' = Outcome("delete_unfingerprinted_songs", "", NoneSid,
                                  0, "", FALSE)
               /\ UNCHANGED <<created, nextId>>
    /\ UNCHANGED <<backend, pc, arg>>
    /\ UNCHANGED matchvars

\* setup: create_all creates the tables that are missing; SQLADatabase then
\* calls delete_unfingerprinted_songs.
Setup ==
    /\ created' = TRUE
    /\ IF backend = "sqla"
          THEN /\ songs' = SongsAfterPurge(backend, songs)
               /\ fingerprints' =
                    FingerprintsAfterPurge(backend, songs, fingerprints)
          ELSE UNCHANGED <<songs, fingerprints>>
    /\ last' = Outcome("setup", "", NoneSid, 0, "", FALSE)
    /\ UNCHANGED <<backend, nextId, pc, arg>>
    /\ UNCHANGED matchvars

\* Mutant of Recreated: the table keeps its rows.
NotDropped(rows) == rows

\* The rows of a table after drop_all() and create_all(): none.
Recreated(rows) == {}

\* empty. SQLADatabase: Fingerprint.__table__.drop() has no bind (the
\* metadata of Base is never bound to the engine) and raises before any
\* table is dropped. SQLACDatabase: drop_all(), then setup().
Empty ==
    /\ IF backend = "sqla"
          THEN Raises("empty", "", NoneSid, "UnboundExecutionError", FALSE)
          ELSE /\ created' = TRUE
               /\ songs' = Recreated(songs)
               /\ fingerprints' = Recreated(fingerprints)
               /\ nextId' = 1
               /\ last' = Outcome("empty", "", NoneSid, 0, "", FALSE)
    /\ UNCHANGED <<backend, pc, arg>>
    /\ UNCHANGED matchvars

\* Mutant of Marked: the flag of the song sid is inverted.
MarkedInverted(ss, sid) ==
    {IF s.id = sid THEN [s EXCEPT !.fingerprinted = ~s.fingerprinted] ELSE s :
        s \in ss}

\* The songs after song.fingerprinted = True, or the UPDATE ... SET
\* fingerprinted = True WHERE song_id = sid.
Marked(ss, sid) ==
    {IF s.id = sid THEN [s EXCEPT !.fingerprinted = TRUE] ELSE s : s \in ss}

\* set_song_fingerprinted(sid).
SetSongFingerprinted(sid) ==
    /\ IF backend = "sqla"
          THEN IF sid = NoneSid
                  THEN Returns("set_song_fingerprinted", "", sid, 0, FALSE)
               ELSE IF ~created
                  THEN NoTables("set_song_fingerprinted", "", sid)
               ELSE IF sid \notin SongIds(songs)
                  THEN Raises("set_song_fingerprinted", "", sid,
                              "AttributeError", TRUE)
               ELSE /\ songs' = Marked(songs, sid)
                    /\ last' = Outcome("set_song_fingerprinted", "", sid, 0,
                                       "", TRUE)
                    /\ UNCHANGED <<created, fingerprints, nextId>>
          ELSE IF ~created
                  THEN NoTables("set_song_fingerprinted", "", sid)
               ELSE /\ songs' = Marked(songs, sid)
                    /\ last' = Outcome("set_song_fingerprinted", "", sid, 0,
                                       "", FALSE)
                    /\ UNCHANGED <<created, fingerprints, nextId>>
    /\ UNCHANGED <<backend, pc, arg>>
    /\ UNCHANGED matchvars

\* get_song_by_id(sid). SQLADatabase returns None (ret 0) for no row;
\* SQLACDatabase zips the keys with fetchone()'s None and raises.
GetSongById(sid) ==
    /\ IF ~created THEN NoTables("get_song_by_id", "", sid)
       ELSE IF sid \in SongIds(songs)
          THEN Returns("get_song_by_id", "", sid, sid, FALSE)
       ELSE IF backend = "sqla"
          THEN Returns("get_song_by_id", "", sid, 0, FALSE)
          ELSE Raises("get_song_by_id", "", sid, "TypeError", FALSE)
    /\ UNCHANGED <<backend, pc, arg>>
    /\ UNCHANGED matchvars

\* insert(hash, sid, offset): one INSERT, committed. When the store rejects
\* the row, SQLADatabase does not reach session.close().
Insert(hash, sid, offset) ==
    /\ IF ~created THEN NoTables("insert", "", sid)
       ELSE IF /\ ForeignKeyHolds(songs, sid)
               /\ FingerprintUnique(fingerprints,
                                    FingerprintRow(hash, sid, offset))
          THEN /\ fingerprints' =
                    fingerprints \cup {FingerprintRow(hash, sid, offset)}
               /\ last' = Outcome("insert", "", sid, 0, "", FALSE)
               /\ UNCHANGED <<created, songs, nextId>>
          ELSE Raises("insert", "", sid, "IntegrityError", backend = "sqla")
    /\ UNCHANGED <<backend, pc, arg>>
    /\ UNCHANGED matchvars

\* The rows insert_hashes adds to its session, in the order of hashes.
BatchRows(sid, hashes) ==
    [i \in 1..Len(hashes) |-> FingerprintRow(hashes[i][1], sid, hashes[i][2])]

\* Whether the store accepts all rows of one transaction.
BatchAccepted(ss, fs, sid, rows) ==
    /\ \A i \in 1..Len(rows) : FingerprintUnique(fs, rows[i])
    /\ \A i \in 1..Len(rows) : \A j \in 1..Len(rows) :
          i # j => rows[i] # rows[j]
    /\ (rows # <<>> => ForeignKeyHolds(ss, sid))

\* Mutant of AfterCommit: every row is committed on its own, up to the first
\* row the store refuses.
AfterEachRow(ss, fs, sid, rows) ==
    fs \cup {rows[j] : j \in {i \in 1..Len(rows) :
                 \A k \in 1..i : /\ ForeignKeyHolds(ss, sid)
                                 /\ FingerprintUnique(fs, rows[k])
                                 /\ \A l \in 1..(k - 1) : rows[l] # rows[k]}}

\* The fingerprints after the one session.commit() of insert_hashes: all
\* rows of the transaction, or, when the store refuses one, none of them.
AfterCommit(ss, fs, sid, rows) ==
    IF BatchAccepted(ss, fs, sid, rows) THEN fs \cup Range(rows) ELSE fs

\* insert_hashes(sid, hashes). SQLADatabase adds every row to one session
\* and commits once, never closing the session; a commit of no rows issues
\* no statement. SQLACDatabase evaluates self.fingerprints.__table__, which
\* a Table does not have, and raises inside its "with" block.
InsertHashes(sid, hashes) ==
    /\ IF backend = "sqlac"
          THEN Raises("insert_hashes", "", sid, "AttributeError", FALSE)
       ELSE IF hashes # <<>> /\ ~created
          THEN NoTables("insert_hashes", "", sid)
       ELSE /\ fingerprints' = AfterCommit(songs, fingerprints, sid,
                                            BatchRows(sid, hashes))
            /\ last' = Outcome("insert_hashes", "", sid, 0,
                               IF BatchAccepted(songs, fingerprints, sid,
                                                BatchRows(sid, hashes))
                                  THEN "" ELSE "IntegrityError",
                               TRUE)
            /\ UNCHANGED <<created, songs, nextId>>
    /\ UNCHANGED <<backend, pc, arg>>
    /\ UNCHANGED matchvars

\* The rows session.query(Song).filter_by(name=song_name) selects;
\* first() returns one of them, or None when there is none.
ByName(ss, name) == {s \in ss : s.name = name}

\* SQLADatabase.insert_song after the lookup found nothing: the INSERT of
\* Song(name=song_name, file_sha1=sha1_hash) and the commit. The session is
\* not closed on any path.
AddSong(name, sha) ==
    IF SongUnique(backend, songs, name, HexDecode(sha))
       THEN /\ nextId <= MaxId
            /\ songs' = songs \cup {[id |-> nextId, name |-> name,
                                     sha |-> HexDecode(sha),
                                     fingerprinted |-> FALSE]}
            /\ nextId' = nextId + 1
            /\ last' = Outcome("insert_song", name, NoneSid, nextId, "", TRUE)
            /\ UNCHANGED <<created, fingerprints>>
       ELSE Raises("insert_song", name, NoneSid, "IntegrityError", TRUE)

\* SQLACDatabase.insert_song(song_name): an INSERT of the name alone. The
\* file_sha1 column is NOT NULL and is given no value: a strict store
\* rejects the row, a permissive one stores its implicit default, the empty
\* value.
InsertNameOnly(name) ==
    \/ Raises("insert_song", name, NoneSid, "IntegrityError", FALSE)
    \/ /\ nextId <= MaxId
       /\ songs' = songs \cup {[id |-> nextId, name |-> name, sha |-> <<>>,
                                fingerprinted |-> FALSE]}
       /\ nextId' = nextId + 1
       /\ last' = Outcome("insert_song", name, NoneSid, nextId, "", FALSE)
       /\ UNCHANGED <<created, fingerprints>>

\* insert_song, first part, by caller p: in SQLADatabase the lookup by name,
\* which returns the identifier found or leaves the caller before its
\* INSERT; in SQLACDatabase the whole call.
InsertSongCall(p, name, sha) ==
    /\ pc[p] = "idle"
    /\ IF ~created
          THEN /\ NoTables("insert_song", name, NoneSid)
               /\ UNCHANGED <<pc, arg>>
       ELSE IF backend = "sqlac"
          THEN /\ InsertNameOnly(name)
               /\ UNCHANGED <<pc, arg>>
       ELSE IF ByName(songs, name) # {}
          THEN /\ \E s \in ByName(songs, name) :
                     Returns("insert_song", name, NoneSid, s.id, TRUE)
               /\ UNCHANGED <<pc, arg>>
          ELSE /\ pc' = [pc EXCEPT ![p] = "looked"]
               /\ arg' = [arg EXCEPT ![p] = [name |-> name, sha |-> sha]]
               /\ UNCHANGED <<created, songs, fingerprints, nextId, last>>
    /\ UNCHANGED backend
    /\ UNCHANGED matchvars

\* insert_song, second part, by caller p: session.add, commit, return.
InsertSongAdd(p) ==
    /\ pc[p] = "looked"
    /\ AddSong(arg[p].name, arg[p].sha)
    /\ pc' = [pc EXCEPT ![p] = "idle"]
    /\ arg' = [arg EXCEPT ![p] = NoArg]
    /\ UNCHANGED backend
    /\ UNCHANGED matchvars

----------------------------------------------------------------------------
(* Specifications.                                                         *)

Init ==
    /\ backend \in Backends
    /\ created = FALSE
    /\ songs = {}
    /\ fingerprints = {}
    /\ nextId = 1
    /\ pc = [p \in Procs |-> "idle"]
    /\ arg = [p \in Procs |-> NoArg]
    /\ last = NoCall
    /\ query = <<>>
    /\ out = EmptyBag
    /\ lookups = 0
    /\ mpc = "idle"
    /\ gkeys = <<>>
    /\ gsize = ChunkSize
    /\ groups = <<>>

\* No insert_song is between its lookup and its INSERT.
Idle == \A p \in Procs : pc[p] = "idle"

\* Calls made one at a time: a call begins when no call is in progress.
Next ==
    \/ InsertSongAdd(1)
    \/ Idle /\ Setup
    \/ Idle /\ Empty
    \/ Idle /\ DeleteUnfingerprintedSongs
    \/ Idle /\ \E sid \in Sids : SetSongFingerprinted(sid)
    \/ Idle /\ \E sid \in Sids : GetSongById(sid)
    \/ Idle /\ \E h \in FpHashes, sid \in Sids, o \in FpOffsets :
                  Insert(h, sid, o)
    \/ Idle /\ \E sid \in Sids, hs \in Batches : InsertHashes(sid, hs)
    \/ Idle /\ \E n \in Names, h \in Shas : InsertSongCall(1, n, h)

Spec == Init /\ [][Next]_vars

\* Callers registering songs concurrently, each in its own session.
NextConc ==
    \/ Setup
    \/ \E p \in Procs, n \in Names, h \in Shas : InsertSongCall(p, n, h)
    \/ \E p \in Procs : InsertSongAdd(p)

SpecConc == Init /\ [][NextConc]_vars

----------------------------------------------------------------------------
(* Properties of return_matches, stated over the inputs alone.             *)

MaxOf(S) == CHOOSE i \in S : \A j \in S : j <= i

\* The positions of hashes at which the binary value h is given, in any case.
Occurrences(hashes, h) ==
    {i \in DOMAIN hashes : HexDecode(hashes[i][1]) = h}

\* The offset given at the last occurrence of h.
LastOffset(hashes, h) == hashes[MaxOf(Occurrences(hashes, h))][2]

\* The stored rows whose hash the query names.
QueriedRows == {f \in fingerprints : Occurrences(query, f.hash) # {}}

ExpectedPair(f) == <<f.song_id, f.song_offset - LastOffset(query, f.hash)>>

ExpectedBag ==
    [p \in {ExpectedPair(f) : f \in QueriedRows} |->
        Cardinality({f \in QueriedRows : ExpectedPair(f) = p})]

\* The number of distinct hashes of the query.
NumKeys == Cardinality({HexDecode(query[i][1]) : i \in DOMAIN query})

Finished == mpc \in {"done", "raised"}

Unchunked ==
    Matches(backend, Mapper(backend, query), fingerprints,
            <<KeysOf(backend, query, 1, Len(query))>>).out

\* C4: for a query of more distinct hashes than one chunk holds, the output
\* is the bag a single lookup over all keys gives, and the number of SELECTs
\* is ceil(NumKeys / ChunkSize).
C4_Chunking ==
    (Finished /\ NumKeys > ChunkSize) =>
        /\ out = Unchunked
        /\ lookups * ChunkSize >= NumKeys
        /\ (lookups - 1) * ChunkSize < NumKeys

\* A query of more than two chunks was answered from rows of two chunks.
C4_Witness ==
    /\ mpc = "done"
    /\ NumKeys > 2 * ChunkSize
    /\ lookups = 3
    /\ BagCardinality(out) = 2

\* C5: when a hash occurs more than once in the query, every row of that
\* hash yields its difference to the offset of the last occurrence, and an
\* earlier occurrence's offset adds no element to the output.
C5_LastOffsetWins ==
    Finished =>
        \A f \in QueriedRows :
            /\ CopiesIn(ExpectedPair(f), out) >= 1
            /\ \A i \in Occurrences(query, f.hash) :
                 LET early == <<f.song_id, f.song_offset - query[i][2]>>
                 IN  CopiesIn(early, out) =
                        Cardinality({g \in QueriedRows : ExpectedPair(g) = early})

\* A hash was given twice, in two cases and with two offsets, and the row
\* of that hash yielded the difference to the second offset only.
C5_Witness ==
    /\ mpc = "done"
    /\ \E f \in QueriedRows :
         /\ Cardinality(Occurrences(query, f.hash)) = 2
         /\ \E i \in Occurrences(query, f.hash) :
              /\ query[i][2] # LastOffset(query, f.hash)
              /\ query[i][1] # query[MaxOf(Occurrences(query, f.hash))][1]
              /\ CopiesIn(<<f.song_id, f.song_offset - query[i][2]>>, out) = 0
         /\ CopiesIn(ExpectedPair(f), out) = 1

\* C6: a stored row is matched by its hash in any letter case: the look-up
\* of the query offset for a fetched row never misses, and the row's
\* (song_id, difference) is yielded.
C6_CaseInsensitive ==
    Finished =>
        /\ mpc = "done"
        /\ \A f \in fingerprints :
             (\E i \in DOMAIN query : HexDecode(query[i][1]) = f.hash)
                => BagIn(ExpectedPair(f), out)

\* The only occurrence of a stored hash in the query is in lower case,
\* while the store presents the hash in upper case.
C6_Witness ==
    /\ mpc = "done"
    /\ \E f \in fingerprints :
         /\ Occurrences(query, f.hash) # {}
         /\ \A i \in Occurrences(query, f.hash) :
               query[i][1] # bintohex(f.hash)
         /\ BagIn(ExpectedPair(f), out)

\* C7: for an empty query the output is empty and no SELECT is executed.
C7_EmptyInput ==
    (Finished /\ query = <<>>) =>
        /\ mpc = "done"
        /\ out = EmptyBag
        /\ lookups = 0

\* The empty query was answered against a store that holds fingerprints.
C7_Witness ==
    /\ mpc = "done"
    /\ query = <<>>
    /\ fingerprints # {}
    /\ lookups = 0

----------------------------------------------------------------------------
(* Properties of the operations.                                           *)

\* This step completes a call insert_song(n, ...) of caller 1.
InsertSongReturns(n) ==
    \/ \E h \in Shas : InsertSongCall(1, n, h) /\ pc'[1] = "idle"
    \/ InsertSongAdd(1) /\ arg[1].name = n

\* C1: when insert_song(name, h2) follows insert_song(name, h1) with no call
\* in between, both calls return the same identifier, and exactly one songs
\* row of that name exists afterwards.
C1_Idempotent ==
    [][\A n \in Names :
          (/\ created
           /\ last.op = "insert_song"
           /\ last.name = n
           /\ InsertSongReturns(n))
          => /\ last.err = ""
             /\ last'.err = ""
             /\ last'.ret = last.ret
             /\ Cardinality(ByName(songs', n)) = 1]_vars

\* C2 (SQLADatabase): however the insert_song calls of several callers
\* interleave, at most one songs row of a name is ever visible, and every
\* finished insert_song has returned, without an error, the identifier of
\* the row of its name.
C2_ConcurrentRegistration ==
    (backend = "sqla" /\ created) =>
        /\ \A n \in Names : Cardinality(ByName(songs, n)) <= 1
        /\ last.op = "insert_song" =>
              /\ last.err = ""
              /\ \E s \in songs : s.id = last.ret /\ s.name = last.name

\* C8: when delete_unfingerprinted_songs has returned, the store holds no
\* song with fingerprinted = FALSE and no fingerprint of such a song.
C8_PurgeDurable ==
    (last.op = "delete_unfingerprinted_songs" /\ last.err = "") =>
        /\ \A s \in songs : s.fingerprinted
        /\ \A f \in fingerprints :
              \E s \in songs : s.id = f.song_id /\ s.fingerprinted

FingerprintsOf(fs, s) == {f \in fs : f.song_id = s.id}

NoOrphans == \A f \in fingerprints : f.song_id \in SongIds(songs)

\* C10: every stored fingerprint refers to a stored song, whatever calls
\* were made, and an insert for an identifier that no song has is rejected.
C10_NoOrphans ==
    /\ NoOrphans
    /\ (last.op = "insert" /\ last.sid \notin SongIds(songs))
          => last.err # ""

\* A purge has deleted a song, and fingerprints of another song remain.
C10_Witness ==
    /\ last.op = "delete_unfingerprinted_songs"
    /\ last.err = ""
    /\ nextId - 1 > Cardinality(songs)
    /\ fingerprints # {}

\* C11: every insert either stores a (hash, song_id, offset) triple the
\* store did not hold, or, the triple being stored already in whatever
\* letter case its hash was given, raises IntegrityError and leaves the
\* fingerprints as they were, the triple stored once.
C11_Uniqueness ==
    [][last'.op = "insert" =>
          \/ /\ last'.err = "IntegrityError"
             /\ fingerprints' = fingerprints
          \/ \A h \in FpHashes, o \in FpOffsets :
                Insert(h, last'.sid, o) =>
                   FingerprintRow(h, last'.sid, o) \notin fingerprints]_vars

\* An insert for a stored song was rejected: the song exists, so the row
\* was refused for being stored already.
C11_Witness ==
    /\ last.op = "insert"
    /\ last.err = "IntegrityError"
    /\ last.sid \in SongIds(songs)
    /\ \E f \in fingerprints : f.song_id = last.sid

MarkedOnly(ss, sid) ==
    {IF s.id = sid THEN [s EXCEPT !.fingerprinted = TRUE] ELSE s : s \in ss}

\* C13: set_song_fingerprinted(sid) for an identifier no song has, None
\* included, ends in an error and changes no song and no fingerprint; for
\* the identifier of a stored song it sets the flag of that song only.
C13_MarkFingerprinted ==
    [][\A sid \in Sids :
          SetSongFingerprinted(sid) =>
             /\ fingerprints' = fingerprints
             /\ IF sid \in SongIds(songs)
                   THEN last'.err = "" /\ songs' = MarkedOnly(songs, sid)
                   ELSE last'.err # "" /\ songs' = songs]_vars

\* C14: on existing tables get_song_by_id(sid) never raises and changes
\* nothing: it returns the song of that identifier, or the absent result
\* when no song has it.
C14_GetSongById ==
    [][\A sid \in Sids :
          (created /\ GetSongById(sid)) =>
             /\ songs' = songs
             /\ fingerprints' = fingerprints
             /\ last'.err = ""
             /\ last'.ret = IF sid \in SongIds(songs) THEN sid ELSE 0]_vars

Places(gs, k) ==
    UNION {{<<t, j>> : j \in {i \in DOMAIN gs[t] : gs[t][i] = k}} :
             t \in DOMAIN gs}

\* C17: the chunks _grouper gives partition the keys: every key is in
\* exactly one place, the empty string too; a chunk holds keys only, never
\* the fill value, at most n of them, and exactly n in every chunk but the
\* last.
C17_ChunkerPartitions ==
    mpc = "grouped" =>
        /\ \A i \in DOMAIN gkeys : Cardinality(Places(groups, gkeys[i])) = 1
        /\ \A t \in DOMAIN groups :
              /\ Len(groups[t]) <= gsize
              /\ t < Len(groups) => Len(groups[t]) = gsize
              /\ \A j \in DOMAIN groups[t] :
                    /\ groups[t][j] # NoneVal
                    /\ groups[t][j] \in Range(gkeys)

\* C18: a song is stored with fingerprinted = FALSE when it is created, and
\* a song whose flag is TRUE keeps its identifier and its flag in every
\* step except a successful empty.
C18_FlagMonotonic ==
    [][/\ \A t \in songs' :
             t.id \notin SongIds(songs) => ~t.fingerprinted
       /\ ~(last'.op = "empty" /\ last'.err = "" /\ Empty) =>
             \A s \in songs :
                s.fingerprinted =>
                   \E t \in songs' : t.id = s.id /\ t.fingerprinted]_vars

\* insert_song was called with the name of a fingerprinted song and returned
\* that song, whose flag is still set.
C18_Witness ==
    /\ last.op = "insert_song"
    /\ last.err = ""
    /\ \E s \in songs :
          s.id = last.ret /\ s.name = last.name /\ s.fingerprinted

\* C19: whenever a call has returned or raised, the session or connection
\* it opened has been closed.
C19_SessionsReleased == last.op # "none" => ~last.leak

OtherBackend(b) == IF b = "sqla" THEN "sqlac" ELSE "sqla"

\* The outcome r of an exhausted return_matches is the one observed.
SameOutcome(r) ==
    /\ r.out = out
    /\ r.lookups = lookups
    /\ r.raised <=> mpc = "raised"

\* C20: what one backend's return_matches has yielded and the number of
\* SELECTs it has made are what the other backend's return_matches gives
\* for the same hashes and the same stored fingerprints, in whatever order
\* its dictionary lists the keys.
C20_BackendsAgree ==
    Finished =>
        \A perm \in KeyOrders(Cardinality(
                       {MapperKey(OtherBackend(backend), query[i][1]) :
                           i \in DOMAIN query})) :
            SameOutcome(return_matches(OtherBackend(backend), query,
                                       fingerprints, perm))

\* SQLACDatabase has answered, with a match, a query of more than one chunk
\* in which hashes are given in lower case.
C20_Witness ==
    /\ backend = "sqlac"
    /\ mpc = "done"
    /\ lookups >= 2
    /\ out # EmptyBag
    /\ \E i \in DOMAIN query : query[i][1] # StrUpper(query[i][1])

============================================================================
